---- MODULE Spec2Model ----
(***************************************************************************)
(* The docker image reconciler of ubo-app                                  *)
(* (src/ubo_app/services/080-docker/image.py) as a state machine.          *)
(*                                                                         *)
(* Threads: every menu operation runs its act() on a worker of its own     *)
(* (run_in_executor / create_task); every check ends in a blocking event   *)
(* loop, the monitor.  One step of a worker is one blocking daemon call    *)
(* together with the dispatches that follow it up to the next daemon call. *)
(* dispatch() is applied to the store at once: the store is the single     *)
(* writer that serialises the actions of all threads.                      *)
(*                                                                         *)
(* docker.from_env() only builds a client object; the daemon is contacted  *)
(* by the calls made on it, and each of them may fail.                     *)
(***************************************************************************)
EXTENDS Integers, Sequences, FiniteSets, TLC

VARIABLES store, notifications, daemon, nextId, ops, menu, lastCheck

vars == <<store, notifications, daemon, nextId, ops, menu, lastCheck>>

\* ------------------------------------------------------------------ bounds
\* user operations (menu openings and menu actions) in one behaviour
MaxOps == 3
\* workers busy at a time: started, not finished, and not waiting on a stream
\* of the daemon (the event feed of a monitor, the progress of a pull)
MaxBusy == 1
\* image ids the daemon hands out (one per image present at start or pulled)
MaxId == 4
\* progress lines of one pull
MaxLines == 1
\* undelivered events held by one monitor
MaxQueue == 2
\* notification objects the notifications store is given (two of each value)
MaxObjects == 6
\* how far below zero unread_count is followed
MaxBelow == 2

\* ----------------------------------------------------------------- catalog
IMAGE_IDS == {"api", "database"}

\* reducer.IMAGES: path, published ports, volumes, environment, network mode
\* and hosts (hostname, target) of each image, hosts in the iteration order of
\* the declared map.
IMAGES ==
    [i \in IMAGE_IDS |->
        IF i = "api"
        THEN [path |-> "ubo/api:latest",
              ports |-> << [HostIp |-> "0.0.0.0", HostPort |-> "8080"] >>,
              volumes |-> << >>,
              environment |-> << "DB_HOST=db" >>,
              network_mode |-> "bridge",
              hosts |-> << [key |-> "db", value |-> "database"],
                           [key |-> "gateway", value |-> "10.0.0.1"] >>]
        ELSE [path |-> "ubo/database:latest",
              ports |-> << >>,
              volumes |-> << "database:/var/lib/data" >>,
              environment |-> << "DB_USER=ubo" >>,
              network_mode |-> "bridge",
              hosts |-> << >>]]

None == "None"

ImageStatus == {"NOT_AVAILABLE", "FETCHING", "AVAILABLE", "CREATED", "RUNNING", "ERROR"}

\* the bridge address the daemon gives the running container of image i
BridgeIp(i) == IF i = "api" THEN "172.17.0.2" ELSE "172.17.0.3"

\* ------------------------------------------------------------------- store
\* ImageState as the store creates it: NOT_AVAILABLE, nothing known.
InitialImageState ==
    [status |-> "NOT_AVAILABLE", docker_id |-> 0, ports |-> << >>, container_ip |-> None]

\* DockerImageSetStatusAction(image, status, ports=[], ip=None) reduced: the
\* status, the ports and the address are replaced together.
SetStatus(st, i, status, ports, ip) ==
    [st EXCEPT ![i].status = status, ![i].ports = ports, ![i].container_ip = ip]

\* DockerImageSetDockerIdAction(image, docker_id) reduced.
SetDockerId(st, i, id) ==
    [st EXCEPT ![i].docker_id = id]

\* Python's == on two notifications: their fields are compared, not the
\* objects (obj, where a notification carries it, is the object's identity).
Equal(a, b) ==
    a.title = b.title /\ a.content = b.content /\ a.importance = b.importance

\* NotificationsAddAction reduced: a notification equal to a stored one
\* (`in`) is not stored again.
NotificationsAdd(ns, n) ==
    IF \E k \in 1..Len(ns.notifications) : Equal(ns.notifications[k], n)
    THEN ns
    ELSE [notifications |-> Append(ns.notifications, n),
          unread_count |-> ns.unread_count + 1]

Notification(content) ==
    [title |-> "Dependency error", content |-> content, importance |-> "MEDIUM"]

\* NotificationsClearAction reduced: the stored notifications that are not
\* the action's object (`is not`) are kept; the count goes down by one when
\* the action's notification equals a stored one (`in`).
RECURSIVE OtherObjects(_, _)
OtherObjects(list, n) ==
    IF list = << >> THEN << >>
    ELSE (IF Head(list).obj # n.obj THEN << Head(list) >> ELSE << >>)
         \o OtherObjects(Tail(list), n)

NotificationsClear(ns, n) ==
    [notifications |-> OtherObjects(ns.notifications, n),
     unread_count |->
        IF \E k \in 1..Len(ns.notifications) : Equal(ns.notifications[k], n)
        THEN ns.unread_count - 1
        ELSE ns.unread_count]

\* NotificationsClearAllAction reduced
NotificationsClearAll(ns) == [notifications |-> << >>, unread_count |-> 0]

\* ------------------------------------------------------------------ daemon
\* A container as client.containers.list(all=True) returns it: its status,
\* its port bindings (bound while it runs) and its attrs (the set of its
\* bridge addresses; docker fills attrs for every listed container).
ContainerOf(d, i) ==
    [status |-> d[i].container,
     ports |-> IF d[i].container = "running" THEN IMAGES[i].ports ELSE << >>,
     attrs |-> {IF d[i].container = "running" THEN BridgeIp(i) ELSE ""}]

\* find_container: the container whose image carries the tag, as a sequence
\* of at most one element (the empty sequence is Python's None).
find_container(d, i) ==
    IF d[i].container = "none" THEN << >> ELSE << ContainerOf(d, i) >>

\* events of the daemon's feed: Type, status, id (the reference of a pull),
\* sha (the image id of a delete), from (the reference of a container's image)
ImagePull(i) ==
    [Type |-> "image", status |-> "pull", id |-> IMAGES[i].path, sha |-> 0, from |-> ""]
ImageDelete(sha) ==
    [Type |-> "image", status |-> "delete", id |-> "", sha |-> sha, from |-> ""]
ContainerEvent(status, i) ==
    [Type |-> "container", status |-> status, id |-> "", sha |-> 0, from |-> IMAGES[i].path]

\* --------------------------------------------------------------- operations
\* One worker: its kind and image, where it stands, what the daemon answered
\* (img: images.get, imgId: the id it returned, cont: the container listing),
\* and what it has done so far (daemon calls made, notifications and
\* status / daemon-id actions dispatched, the arguments of containers.run).
\* at: the status image_menu rendered when the menu item was selected.
\* missed: the daemon has emitted an event of the image after the check's
\* poll and before its monitor subscribed.
NewOp(kind, i, pc, snap) ==
    [kind |-> kind, image |-> i, pc |-> pc,
     img |-> "?", imgId |-> 0, cont |-> "?",
     queue |-> << >>,
     snap |-> snap,
     at |-> "?", missed |-> FALSE,
     calls |-> {}, notes |-> 0, acts |-> 0, hosts |-> << >>, args |-> << >>,
     stream |-> "none", lines |-> 0, sent |-> 0, watchers |-> {}]

NoSnap == [j \in IMAGE_IDS |-> None]

OpIds == 1..Len(ops)

Busy ==
    {o \in OpIds : ops[o].pc \in {"get", "list", "subscribe", "pull", "find",
                                   "start", "create", "stop", "remove", "rmi"}}

\* a menu item can start a worker
CanStart == Len(ops) < MaxOps /\ Cardinality(Busy) < MaxBusy

Monitoring(o) == ops[o].kind = "check" /\ ops[o].pc = "monitor"

Monitors(i) == {o \in OpIds : Monitoring(o) /\ ops[o].image = i}

\* the daemon appends the events es to the feed of every subscribed monitor;
\* a check that has polled and not yet subscribed does not get them
CanEmit(n) == \A o \in OpIds : Monitoring(o) => Len(ops[o].queue) + n <= MaxQueue

Emit(os, es) ==
    [o \in DOMAIN os |->
        IF os[o].kind = "check" /\ os[o].pc = "monitor"
        THEN [os[o] EXCEPT !.queue = @ \o es]
        ELSE IF /\ os[o].kind = "check" /\ os[o].pc = "subscribe"
                /\ \E k \in 1..Len(es) :
                      IMAGES[os[o].image].path \in {es[k].id, es[k].from}
        THEN [os[o] EXCEPT !.missed = TRUE]
        ELSE os[o]]

\* lastCheck[i] holds the answers and the result of the last finished poll of
\* image i; it is forgotten when the daemon's image i changes or when another
\* thread writes ImageState i.
Forget(lc, i) == [lc EXCEPT ![i] = << >>]

\* the daemon's ids of the images present when the program starts
InitId(i) == IF i = "api" THEN 1 ELSE 2

Init ==
    /\ store = [i \in IMAGE_IDS |-> InitialImageState]
    /\ notifications = [notifications |-> << >>, unread_count |-> 0]
    /\ daemon \in {d \in [IMAGE_IDS -> [image : {0, 1, 2},
                                        container : {"none", "exited", "running"}]] :
                      \A i \in IMAGE_IDS :
                         /\ d[i].image \in {0, InitId(i)}
                         /\ d[i].image = 0 => d[i].container = "none"}
    /\ nextId = 3
    /\ ops = << >>
    /\ menu = None
    /\ lastCheck = [i \in IMAGE_IDS |-> << >>]

\* image_menu_generator.image_action: opening the menu of an image calls
\* check_container, which creates the task of act().
OpenMenu(i) ==
    /\ CanStart
    /\ menu' = i
    /\ ops' = Append(ops, NewOp("check", i, "get", NoSnap))
    /\ UNCHANGED <<store, notifications, daemon, nextId, lastCheck>>

update_container_append(st, i, container) ==
    IF container.status = "running"
    THEN SetStatus(st, i, "RUNNING",
                   st[i].ports \o
                   [k \in 1..Len(container.ports) |->
                       <<container.ports[k].HostIp, container.ports[k].HostPort>>],
                   IF container.attrs # {}
                   THEN CHOOSE ip \in container.attrs : TRUE
                   ELSE None)
    ELSE SetStatus(st, i, "CREATED", << >>, None)

\* update_container: RUNNING with the container's bindings and bridge address
\* when it runs, CREATED otherwise.
update_container(st, i, container) ==
    IF container.status = "running"
    THEN SetStatus(st, i, "RUNNING",
                   [k \in 1..Len(container.ports) |->
                       <<container.ports[k].HostIp, container.ports[k].HostPort>>],
                   IF container.attrs # {}
                   THEN CHOOSE ip \in container.attrs : TRUE
                   ELSE None)
    ELSE SetStatus(st, i, "CREATED", << >>, None)

check_get_dispatch_one_handler(st, i, answer, id) ==
    CASE answer = "found" -> SetDockerId(st, i, id)
      [] OTHER -> SetStatus(st, i, "ERROR", << >>, None)

\* check_container.act, lines 153-165 and 183-206: images.get(path) and what
\* is dispatched on its answer.  answer: "found", "not_found" (ImageNotFound)
\* or "error" (any other DockerException).
check_get_dispatch(st, i, answer, id) ==
    CASE answer = "found" -> SetDockerId(st, i, id)
      [] answer = "not_found" -> SetStatus(st, i, "NOT_AVAILABLE", << >>, None)
      [] OTHER -> SetStatus(st, i, "ERROR", << >>, None)

\* check_container.act, lines 168-182 and 195-206: find_container and what is
\* dispatched on its answer.
check_list_dispatch(st, i, failed, found) ==
    IF failed THEN SetStatus(st, i, "ERROR", << >>, None)
    ELSE IF found # << >> THEN update_container(st, i, found[1])
    ELSE SetStatus(st, i, "AVAILABLE", << >>, None)

check_get_next_early_return(answer) ==
    IF answer = "found" THEN "list"
    ELSE IF answer = "not_found" THEN "closed" ELSE "subscribe"

\* where act() goes after images.get: on to find_container when the image was
\* found, else through the handler to the finally block.
check_get_next(answer) == IF answer = "found" THEN "list" ELSE "subscribe"

\* lastCheck[i], the record of the last finished poll of image i: the
\* daemon's answers, the ImageState the poll left, n, the number of polls in a
\* row that got these answers, and cur, the poll that has begun since (0: none)
SameAnswers(lc, op) ==
    lc # << >> /\ lc[1].img = op.img /\ lc[1].imgId = op.imgId /\ lc[1].cont = op.cont

\* the poll of worker o, which stood at pc, directly follows the recorded one
InRow(lc, o, pc) ==
    lc # << >> /\ lc[1].cur = (IF pc = "get" THEN 0 ELSE o)

\* worker o has got the image and goes on to list the containers
PollBegins(lc, o) ==
    IF lc # << >> /\ lc[1].cur = 0 THEN << [lc[1] EXCEPT !.cur = o] >> ELSE << >>

PollResult(lc, o, pc, op, st) ==
    << [img |-> op.img, imgId |-> op.imgId, cont |-> op.cont, state |-> st,
        n |-> IF InRow(lc, o, pc) /\ SameAnswers(lc, op) THEN 2 ELSE 1,
        cur |-> 0] >>

CheckGet(o) ==
    /\ ops[o].kind = "check" /\ ops[o].pc = "get"
    /\ LET i == ops[o].image IN
       \E answer \in {IF daemon[i].image = 0 THEN "not_found" ELSE "found", "error"} :
         LET id == IF answer = "found" THEN daemon[i].image ELSE 0
             op == [ops[o] EXCEPT !.img = answer, !.imgId = id,
                                  !.pc = check_get_next(answer),
                                  !.acts = @ + 1]
         IN /\ store' = check_get_dispatch(store, i, answer, id)
            /\ ops' = [ops EXCEPT ![o] = op]
            /\ lastCheck' = [lastCheck EXCEPT ![i] =
                               IF op.pc = "list" THEN PollBegins(@, o)
                               ELSE PollResult(@, o, "get", op, store'[i])]
    /\ UNCHANGED <<notifications, daemon, nextId, menu>>

CheckList(o) ==
    /\ ops[o].kind = "check" /\ ops[o].pc = "list"
    /\ LET i == ops[o].image IN
       \E failed \in BOOLEAN :
         LET found == find_container(daemon, i)
             op == [ops[o] EXCEPT !.cont = IF failed THEN "error" ELSE daemon[i].container,
                                  !.pc = "subscribe",
                                  !.acts = @ + 1]
         IN /\ store' = check_list_dispatch(store, i, failed, found)
            /\ ops' = [ops EXCEPT ![o] = op]
            /\ lastCheck' = [lastCheck EXCEPT ![i] =
                               PollResult(@, o, "list", op, store'[i])]
    /\ UNCHANGED <<notifications, daemon, nextId, menu>>

\* the finally block of act(): _monitor_events subscribes to the feed with
\* docker_client.events(); events emitted before this step are not received.
CheckSubscribe(o) ==
    /\ ops[o].kind = "check" /\ ops[o].pc = "subscribe"
    /\ ops' = [ops EXCEPT ![o].pc = "monitor", ![o].queue = << >>]
    /\ UNCHANGED <<store, notifications, daemon, nextId, menu, lastCheck>>

\* ---------------------------------------------------------------- monitor
\* _monitor_events, the body of the loop for one event (lines 95-144).
\* got: the answer of images.get(path) on a pull event ("found" with id, or a
\* DockerException); found: the container find_container returns on a start
\* event; docker_id: get_docker_id(), read from the store when the event is
\* evaluated.
monitor_pull(st, i, got, id) ==
    IF got = "found"
    THEN SetDockerId(SetStatus(st, i, "AVAILABLE", << >>, None), i, id)
    ELSE SetStatus(st, i, "NOT_AVAILABLE", << >>, None)

monitor_delete_forget_id(st, i) ==
    SetDockerId(SetStatus(st, i, "NOT_AVAILABLE", << >>, None), i, 0)

monitor_delete(st, i) == SetStatus(st, i, "NOT_AVAILABLE", << >>, None)

monitor_start_assume_running(st, i, found) ==
    IF found # << >> THEN SetStatus(st, i, "RUNNING", << >>, None) ELSE st

monitor_start(st, i, found) ==
    IF found # << >> THEN update_container(st, i, found[1]) ELSE st

monitor_die_status_only(st, i) == [st EXCEPT ![i].status = "CREATED"]

monitor_die_keep_ip(st, i) ==
    [st EXCEPT ![i].status = "CREATED", ![i].ports = << >>]

monitor_die(st, i) == SetStatus(st, i, "CREATED", << >>, None)

monitor_destroy_not_available(st, i) ==
    SetStatus(st, i, "NOT_AVAILABLE", << >>, None)

monitor_destroy(st, i) == SetStatus(st, i, "AVAILABLE", << >>, None)

monitor_rule_any_path(st, i, event) ==
    LET path == IMAGES[i].path IN
    IF event.Type = "image"
    THEN IF event.status = "pull" /\ event.id = path THEN "pull"
         ELSE IF event.status = "delete" /\ event.sha = st[i].docker_id THEN "delete"
         ELSE "none"
    ELSE IF event.Type = "container"
    THEN IF event.status = "start" /\ event.from = path THEN "start"
         ELSE IF event.status = "die" THEN "die"
         ELSE IF event.status = "destroy" /\ event.from = path THEN "destroy"
         ELSE "none"
    ELSE "none"

monitor_rule_id_at_start(st, i, event) ==
    LET path == IMAGES[i].path IN
    IF event.Type = "image"
    THEN IF event.status = "pull" /\ event.id = path THEN "pull"
         ELSE IF event.status = "delete"
                 /\ \E m \in Monitors(i) : event.sha = ops[m].imgId THEN "delete"
         ELSE "none"
    ELSE IF event.Type = "container"
    THEN IF event.status = "start" /\ event.from = path THEN "start"
         ELSE IF event.status = "die" /\ event.from = path THEN "die"
         ELSE IF event.status = "destroy" /\ event.from = path THEN "destroy"
         ELSE "none"
    ELSE "none"

\* which rule of the loop an event matches for image i ("none": ignored)
monitor_rule(st, i, event) ==
    LET path == IMAGES[i].path IN
    IF event.Type = "image"
    THEN IF event.status = "pull" /\ event.id = path THEN "pull"
         ELSE IF event.status = "delete" /\ event.sha = st[i].docker_id THEN "delete"
         ELSE "none"
    ELSE IF event.Type = "container"
    THEN IF event.status = "start" /\ event.from = path THEN "start"
         ELSE IF event.status = "die" /\ event.from = path THEN "die"
         ELSE IF event.status = "destroy" /\ event.from = path THEN "destroy"
         ELSE "none"
    ELSE "none"

\* one iteration of the loop: the monitor takes the next event of its feed.
\* A daemon call made for the event may fail: on a pull event the failure is
\* handled (lines 112-118); on a start event find_container's listing raises
\* out of the loop and the task ends with the exception.
MonitorEvent(o) ==
    /\ Monitoring(o) /\ ops[o].queue # << >>
    /\ LET i == ops[o].image
           event == Head(ops[o].queue)
           rule == monitor_rule(store, i, event)
           rest == [ops[o] EXCEPT !.queue = Tail(@)]
       IN \E failed \in (IF rule \in {"pull", "start"} THEN BOOLEAN ELSE {FALSE}) :
          /\ store' =
               CASE rule = "pull" ->
                      monitor_pull(store, i,
                                   IF failed \/ daemon[i].image = 0 THEN "error" ELSE "found",
                                   daemon[i].image)
                 [] rule = "delete" -> monitor_delete(store, i)
                 [] rule = "start" ->
                      IF failed THEN store
                      ELSE monitor_start(store, i, find_container(daemon, i))
                 [] rule = "die" -> monitor_die(store, i)
                 [] rule = "destroy" -> monitor_destroy(store, i)
                 [] OTHER -> store
          /\ ops' = [ops EXCEPT ![o] =
                       IF rule = "start" /\ failed
                       THEN [rest EXCEPT !.pc = "raised", !.queue = << >>]
                       ELSE rest]
          /\ lastCheck' = IF store'[i] # store[i] THEN Forget(lastCheck, i) ELSE lastCheck
    /\ UNCHANGED <<notifications, daemon, nextId, menu>>

FeedEnd_dispatches_error(o) ==
    /\ Monitoring(o)
    /\ ops' = [ops EXCEPT ![o].pc = "closed", ![o].queue = << >>]
    /\ store' = SetStatus(store, ops[o].image, "ERROR", << >>, None)
    /\ lastCheck' = Forget(lastCheck, ops[o].image)
    /\ UNCHANGED <<notifications, daemon, nextId, menu>>

\* the feed ends (the connection to the daemon drops): the loop ends without
\* a dispatch, and act() closes its client (line 214).
FeedEnd(o) ==
    /\ Monitoring(o)
    /\ ops' = [ops EXCEPT ![o].pc = "closed", ![o].queue = << >>]
    /\ UNCHANGED <<store, notifications, daemon, nextId, menu, lastCheck>>

\* ------------------------------------------------------------------ fetch
\* image_menu offers Fetch while the status is NOT_AVAILABLE (lines 383-390).
Fetch(i) ==
    /\ CanStart
    /\ menu = i /\ store[i].status = "NOT_AVAILABLE"
    /\ ops' = Append(ops, [NewOp("fetch", i, "pull", NoSnap)
                              EXCEPT !.at = store[i].status])
    /\ UNCHANGED <<store, notifications, daemon, nextId, menu, lastCheck>>

\* _fetch_image.act up to the pull request (lines 221-234): FETCHING is
\* dispatched, then api.pull opens the stream or raises.
fetch_begin(st, i, failed) ==
    IF failed
    THEN SetStatus(SetStatus(st, i, "FETCHING", << >>, None), i, "ERROR", << >>, None)
    ELSE SetStatus(st, i, "FETCHING", << >>, None)

FetchPull(o) ==
    /\ ops[o].kind = "fetch" /\ ops[o].pc = "pull"
    /\ LET i == ops[o].image IN
       \E failed \in BOOLEAN :
          /\ store' = fetch_begin(store, i, failed)
          /\ ops' = [ops EXCEPT ![o].pc = IF failed THEN "done" ELSE "stream",
                                ![o].stream = IF failed THEN "none" ELSE "open",
                                ![o].acts = @ + (IF failed THEN 2 ELSE 1),
                                ![o].watchers = Monitors(i)]
          /\ lastCheck' = Forget(lastCheck, i)
    /\ UNCHANGED <<notifications, daemon, nextId, menu>>

\* the daemon writes a progress line to the stream of a pull
DaemonPullLine(o) ==
    /\ ops[o].kind = "fetch" /\ ops[o].stream = "open" /\ ops[o].sent < MaxLines
    /\ ops' = [ops EXCEPT ![o].lines = @ + 1, ![o].sent = @ + 1]
    /\ UNCHANGED <<store, notifications, daemon, nextId, menu, lastCheck>>

\* the daemon completes a pull: the image is stored under a new id, the pull
\* event is emitted and the stream is ended.
DaemonPullComplete(o) ==
    /\ ops[o].kind = "fetch" /\ ops[o].stream = "open"
    /\ nextId <= MaxId /\ CanEmit(1)
    /\ LET i == ops[o].image IN
       /\ daemon' = [daemon EXCEPT ![i].image = nextId]
       /\ nextId' = nextId + 1
       /\ ops' = Emit([ops EXCEPT ![o].stream = "eof"], << ImagePull(i) >>)
       /\ lastCheck' = Forget(lastCheck, i)
    /\ UNCHANGED <<store, notifications, menu>>

\* the daemon fails a pull.  "raise": the request breaks and the stream raises
\* a DockerException at the reader; "line": the daemon reports the failure in
\* the stream, as a last line {"error": ...}, and ends the stream.
DaemonPullFail(o) ==
    /\ ops[o].kind = "fetch" /\ ops[o].stream = "open"
    /\ \E how \in {"raise", "line"} :
          ops' = [ops EXCEPT ![o].stream = IF how = "raise" THEN "error" ELSE "failed",
                             ![o].lines = IF how = "raise" THEN @ ELSE @ + 1]
    /\ UNCHANGED <<store, notifications, daemon, nextId, menu, lastCheck>>

\* _fetch_image.act, the loop over the stream (lines 235-259): FETCHING for
\* every line read, whatever the line says; at the end of the stream the
\* client is closed; a DockerException gives ERROR.
fetch_read(st, i, what) ==
    CASE what = "line" -> SetStatus(st, i, "FETCHING", << >>, None)
      [] what = "error" -> SetStatus(st, i, "ERROR", << >>, None)
      [] OTHER -> st

FetchRead(o) ==
    /\ ops[o].kind = "fetch" /\ ops[o].pc = "stream"
    /\ ops[o].lines > 0 \/ ops[o].stream \in {"eof", "error", "failed"}
    /\ LET i == ops[o].image
           what == IF ops[o].lines > 0 THEN "line"
                   ELSE IF ops[o].stream = "error" THEN "error" ELSE "end"
       IN /\ store' = fetch_read(store, i, what)
          /\ ops' = [ops EXCEPT ![o].lines = IF what = "line" THEN @ - 1 ELSE @,
                                ![o].pc = IF what = "line" THEN "stream" ELSE "done",
                                ![o].acts = IF what = "end" THEN @ ELSE @ + 1]
          /\ lastCheck' = IF what = "end" THEN lastCheck ELSE Forget(lastCheck, i)
    /\ UNCHANGED <<notifications, daemon, nextId, menu>>

\* ------------------------------------------------------------ remove image
\* image_menu offers _remove_image while FETCHING ("Stop") and while
\* AVAILABLE ("Remove image") (lines 391-413).
RemoveImage(i) ==
    /\ CanStart
    /\ menu = i /\ store[i].status \in {"FETCHING", "AVAILABLE"}
    /\ ops' = Append(ops, [NewOp("remove_image", i, "rmi", NoSnap)
                              EXCEPT !.at = store[i].status])
    /\ UNCHANGED <<store, notifications, daemon, nextId, menu, lastCheck>>

\* what images.remove(path, force=True) does at the daemon: "raised" when the
\* call fails, the image is not there (ImageNotFound) or a running container
\* uses it (conflict); else the image is deleted.  A stopped container of a
\* deleted image no longer carries the tag: find_container does not see it.
images_remove(d, i, failed) ==
    IF failed \/ d[i].image = 0 \/ d[i].container = "running"
    THEN [raised |-> TRUE, daemon |-> d, events |-> << >>]
    ELSE [raised |-> FALSE,
          daemon |-> [d EXCEPT ![i] = [image |-> 0, container |-> "none"]],
          events |-> << ImageDelete(d[i].image) >>]

\* _remove_image.act (lines 265-268): nothing is caught and nothing is
\* dispatched; the client is closed when the call returns.  img: the image
\* was removed ("found"), was not there ("not_found": ImageNotFound is
\* raised), or the daemon refused or failed ("error").
RemoveImageAct(o) ==
    /\ ops[o].kind = "remove_image" /\ ops[o].pc = "rmi"
    /\ LET i == ops[o].image IN
       \E failed \in BOOLEAN :
         LET r == images_remove(daemon, i, failed) IN
          /\ CanEmit(Len(r.events))
          /\ daemon' = r.daemon
          /\ ops' = Emit([ops EXCEPT ![o].pc = IF r.raised THEN "raised" ELSE "done",
                                     ![o].img = IF ~r.raised THEN "found"
                                                ELSE IF ~failed /\ daemon[i].image = 0
                                                THEN "not_found" ELSE "error",
                                     ![o].calls = @ \cup {"remove"}],
                         r.events)
          /\ lastCheck' = IF r.raised THEN lastCheck ELSE Forget(lastCheck, i)
    /\ UNCHANGED <<store, notifications, nextId, menu>>

\* -------------------------------------------------------------------- run
\* docker_state as _run_container_generator()'s closure holds it: the store's
\* docker state at the moment the menu item is selected.
DockerState(st) == [j \in IMAGE_IDS |-> st[j].container_ip]

\* image_menu offers Start while AVAILABLE and while CREATED (lines 399-428).
Run(i) ==
    /\ CanStart
    /\ menu = i /\ store[i].status \in {"AVAILABLE", "CREATED"}
    /\ ops' = Append(ops, [NewOp("run", i, "find", DockerState(store))
                              EXCEPT !.at = store[i].status])
    /\ UNCHANGED <<store, notifications, daemon, nextId, menu, lastCheck>>

RECURSIVE resolve_hosts_last_unmet(_, _, _, _)
resolve_hosts_last_unmet(entries, k, docker_state, hosts) ==
    IF k > Len(entries) THEN [failed |-> FALSE, hosts |-> hosts, content |-> << >>]
    ELSE LET key == entries[k].key
             value == entries[k].value
             rest == resolve_hosts_last_unmet(entries, k + 1, docker_state, hosts)
         IN IF rest.failed THEN rest
            ELSE IF value \notin DOMAIN docker_state
            THEN [failed |-> TRUE, hosts |-> hosts,
                  content |-> <<value, "is not loaded">>]
            ELSE IF docker_state[value] \in {None, ""}
            THEN [failed |-> TRUE, hosts |-> hosts,
                  content |-> <<value, "does not have an IP address">>]
            ELSE [failed |-> FALSE,
                  hosts |-> << <<key, docker_state[value]>> >> \o rest.hosts,
                  content |-> << >>]

\* the loop over IMAGES[image.id].hosts (lines 283-311) from entry k on:
\* the first target that is no attribute of docker_state, or whose
\* container_ip is empty, ends it with a notification; else the hosts so far
\* grow by the target's address.
RECURSIVE resolve_hosts(_, _, _, _)
resolve_hosts(entries, k, docker_state, hosts) ==
    IF k > Len(entries) THEN [failed |-> FALSE, hosts |-> hosts, content |-> << >>]
    ELSE LET key == entries[k].key
             value == entries[k].value
         IN IF value \notin DOMAIN docker_state
            THEN [failed |-> TRUE, hosts |-> hosts,
                  content |-> <<value, "is not loaded">>]
            ELSE IF docker_state[value] \in {None, ""}
            THEN [failed |-> TRUE, hosts |-> hosts,
                  content |-> <<value, "does not have an IP address">>]
            ELSE resolve_hosts(entries, k + 1, docker_state,
                               Append(hosts, <<key, docker_state[value]>>))

\* run_container.act after find_container (lines 279-311): where it goes.
\* "start": an existing container that is not running is started; "done": it
\* runs already; with no container the hosts are resolved: "aborted" with a
\* notification, or on to "create".
run_after_find(found, resolved) ==
    IF found # << >>
    THEN IF found[1].status # "running" THEN "start" ELSE "done"
    ELSE IF resolved.failed THEN "aborted" ELSE "create"

RunFind(o) ==
    /\ ops[o].kind = "run" /\ ops[o].pc = "find"
    /\ LET i == ops[o].image IN
       \E failed \in BOOLEAN :
         LET found == find_container(daemon, i)
             resolved == resolve_hosts(IMAGES[i].hosts, 1, ops[o].snap, << >>)
             pc == IF failed THEN "raised" ELSE run_after_find(found, resolved)
         IN /\ ops' = [ops EXCEPT ![o].pc = pc,
                                  ![o].calls = @ \cup {"list"},
                                  ![o].cont = IF failed THEN "error" ELSE daemon[i].container,
                                  ![o].notes = IF pc = "aborted" THEN @ + 1 ELSE @,
                                  ![o].hosts = IF pc = "create" THEN resolved.hosts ELSE @]
            /\ notifications' =
                 IF pc = "aborted"
                 THEN NotificationsAdd(notifications, Notification(resolved.content))
                 ELSE notifications
    /\ UNCHANGED <<store, daemon, nextId, menu, lastCheck>>

\* container.start() (line 281): the container found is started; the call
\* raises when it fails or the container is gone.
RunStart(o) ==
    /\ ops[o].kind = "run" /\ ops[o].pc = "start"
    /\ LET i == ops[o].image IN
       \E failed \in BOOLEAN :
         LET raised == failed \/ daemon[i].container = "none"
             starts == ~raised /\ daemon[i].container = "exited"
         IN /\ CanEmit(IF starts THEN 1 ELSE 0)
            /\ daemon' = IF starts THEN [daemon EXCEPT ![i].container = "running"]
                         ELSE daemon
            /\ ops' = Emit([ops EXCEPT ![o].pc = IF raised THEN "raised" ELSE "done",
                                       ![o].calls = @ \cup {"start"}],
                           IF starts THEN << ContainerEvent("start", i) >> ELSE << >>)
            /\ lastCheck' = IF starts THEN Forget(lastCheck, i) ELSE lastCheck
    /\ UNCHANGED <<store, notifications, nextId, menu>>

\* the arguments of docker_client.containers.run (lines 312-323)
run_args(i, hosts) ==
    [image |-> IMAGES[i].path, hostname |-> i, publish_all_ports |-> TRUE,
     detach |-> TRUE, volumes |-> IMAGES[i].volumes, ports |-> IMAGES[i].ports,
     network_mode |-> IMAGES[i].network_mode,
     environment |-> IMAGES[i].environment,
     extra_hosts |-> hosts, restart_policy |-> "always"]

\* docker_client.containers.run(..., detach=True, extra_hosts=hosts) (lines
\* 312-323): a container is created and started; docker-py pulls the image
\* first when the daemon does not hold it.
RunCreate(o) ==
    /\ ops[o].kind = "run" /\ ops[o].pc = "create"
    /\ LET i == ops[o].image IN
       \E failed \in BOOLEAN :
         LET pulls == ~failed /\ daemon[i].image = 0
             events == IF failed THEN << >>
                       ELSE (IF pulls THEN << ImagePull(i) >> ELSE << >>)
                            \o << ContainerEvent("start", i) >>
         IN /\ pulls => nextId <= MaxId
            /\ CanEmit(Len(events))
            /\ daemon' = IF failed THEN daemon
                         ELSE [daemon EXCEPT ![i] =
                                 [image |-> IF pulls THEN nextId ELSE @.image,
                                  container |-> "running"]]
            /\ nextId' = IF pulls THEN nextId + 1 ELSE nextId
            /\ ops' = Emit([ops EXCEPT ![o].pc = IF failed THEN "raised" ELSE "done",
                                       ![o].calls = @ \cup {"run"},
                                       ![o].args = << run_args(i, ops[o].hosts) >>],
                           events)
            /\ lastCheck' = IF failed THEN lastCheck ELSE Forget(lastCheck, i)
    /\ UNCHANGED <<store, notifications, menu>>

\* ------------------------------------------------------------------- stop
Stop_offered_in_error(i) ==
    /\ CanStart
    /\ menu = i /\ store[i].status \in {"RUNNING", "ERROR"}
    /\ ops' = Append(ops, [NewOp("stop", i, "find", NoSnap)
                              EXCEPT !.at = store[i].status])
    /\ UNCHANGED <<store, notifications, daemon, nextId, menu, lastCheck>>

\* image_menu offers Stop while RUNNING (lines 429-436).
Stop(i) ==
    /\ CanStart
    /\ menu = i /\ store[i].status = "RUNNING"
    /\ ops' = Append(ops, [NewOp("stop", i, "find", NoSnap)
                              EXCEPT !.at = store[i].status])
    /\ UNCHANGED <<store, notifications, daemon, nextId, menu, lastCheck>>

\* _stop_container.act after find_container (lines 334-337)
stop_after_find(found) ==
    IF found # << >> /\ found[1].status # "exited" THEN "stop" ELSE "done"

StopFind(o) ==
    /\ ops[o].kind = "stop" /\ ops[o].pc = "find"
    /\ LET i == ops[o].image IN
       \E failed \in BOOLEAN :
          ops' = [ops EXCEPT ![o].pc = IF failed THEN "raised"
                                       ELSE stop_after_find(find_container(daemon, i)),
                             ![o].calls = @ \cup {"list"},
                             ![o].cont = IF failed THEN "error" ELSE daemon[i].container]
    /\ UNCHANGED <<store, notifications, daemon, nextId, menu, lastCheck>>

StopStop_optimistic(o) ==
    /\ ops[o].kind = "stop" /\ ops[o].pc = "stop"
    /\ LET i == ops[o].image IN
       \E failed \in BOOLEAN :
         LET raised == failed \/ daemon[i].container = "none"
             dies == ~raised /\ daemon[i].container = "running"
         IN /\ CanEmit(IF dies THEN 1 ELSE 0)
            /\ daemon' = IF dies THEN [daemon EXCEPT ![i].container = "exited"] ELSE daemon
            /\ ops' = Emit([ops EXCEPT ![o].pc = IF raised THEN "raised" ELSE "done",
                                       ![o].calls = @ \cup {"stop"}],
                           IF dies THEN << ContainerEvent("die", i) >> ELSE << >>)
            /\ store' = IF raised THEN store
                        ELSE SetStatus(store, i, "CREATED", << >>, None)
            /\ lastCheck' = IF dies THEN Forget(lastCheck, i) ELSE lastCheck
    /\ UNCHANGED <<notifications, nextId, menu>>

\* container.stop() (line 336): the container dies.
StopStop(o) ==
    /\ ops[o].kind = "stop" /\ ops[o].pc = "stop"
    /\ LET i == ops[o].image IN
       \E failed \in BOOLEAN :
         LET raised == failed \/ daemon[i].container = "none"
             dies == ~raised /\ daemon[i].container = "running"
         IN /\ CanEmit(IF dies THEN 1 ELSE 0)
            /\ daemon' = IF dies THEN [daemon EXCEPT ![i].container = "exited"] ELSE daemon
            /\ ops' = Emit([ops EXCEPT ![o].pc = IF raised THEN "raised" ELSE "done",
                                       ![o].calls = @ \cup {"stop"}],
                           IF dies THEN << ContainerEvent("die", i) >> ELSE << >>)
            /\ lastCheck' = IF dies THEN Forget(lastCheck, i) ELSE lastCheck
    /\ UNCHANGED <<store, notifications, nextId, menu>>

\* ------------------------------------------------------- remove container
\* image_menu offers Remove container while CREATED (lines 414-428).
RemoveContainer(i) ==
    /\ CanStart
    /\ menu = i /\ store[i].status = "CREATED"
    /\ ops' = Append(ops, [NewOp("remove_container", i, "find", NoSnap)
                              EXCEPT !.at = store[i].status])
    /\ UNCHANGED <<store, notifications, daemon, nextId, menu, lastCheck>>

\* _remove_container.act after find_container (lines 345-348)
remove_after_find(found) == IF found # << >> THEN "remove" ELSE "done"

RemoveContainerFind(o) ==
    /\ ops[o].kind = "remove_container" /\ ops[o].pc = "find"
    /\ LET i == ops[o].image IN
       \E failed \in BOOLEAN :
          ops' = [ops EXCEPT ![o].pc = IF failed THEN "raised"
                                       ELSE remove_after_find(find_container(daemon, i)),
                             ![o].calls = @ \cup {"list"},
                             ![o].cont = IF failed THEN "error" ELSE daemon[i].container]
    /\ UNCHANGED <<store, notifications, daemon, nextId, menu, lastCheck>>

\* container.remove(v=True, force=True) (line 347): a running container is
\* killed first; the container is destroyed.
RemoveContainerRemove(o) ==
    /\ ops[o].kind = "remove_container" /\ ops[o].pc = "remove"
    /\ LET i == ops[o].image IN
       \E failed \in BOOLEAN :
         LET raised == failed \/ daemon[i].container = "none"
             events == IF raised THEN << >>
                       ELSE (IF daemon[i].container = "running"
                             THEN << ContainerEvent("die", i) >> ELSE << >>)
                            \o << ContainerEvent("destroy", i) >>
         IN /\ CanEmit(Len(events))
            /\ daemon' = IF raised THEN daemon ELSE [daemon EXCEPT ![i].container = "none"]
            /\ ops' = Emit([ops EXCEPT ![o].pc = IF raised THEN "raised" ELSE "done",
                                       ![o].calls = @ \cup {"remove"}],
                           events)
            /\ lastCheck' = IF raised THEN lastCheck ELSE Forget(lastCheck, i)
    /\ UNCHANGED <<store, notifications, nextId, menu>>

\* docker_client.close() has been called by the worker: at line 214 when
\* the monitor's loop has ended, at 247 when the pull's stream has ended, at
\* 268, 324, 337 and 348 when act() has run to its last line.  A return
\* before that line, or an exception, leaves the client open.
client_closed(op) ==
    CASE op.kind = "check" -> op.pc = "closed"
      [] op.kind = "fetch" -> op.pc = "done" /\ op.stream \in {"eof", "failed"}
      [] OTHER -> op.pc = "done"

Next ==
    \/ \E i \in IMAGE_IDS : OpenMenu(i)
    \/ \E o \in OpIds : CheckGet(o)
    \/ \E o \in OpIds : CheckList(o)
    \/ \E o \in OpIds : CheckSubscribe(o)
    \/ \E o \in OpIds : MonitorEvent(o)
    \/ \E o \in OpIds : FeedEnd(o)
    \/ \E i \in IMAGE_IDS : Fetch(i)
    \/ \E o \in OpIds : FetchPull(o)
    \/ \E o \in OpIds : DaemonPullLine(o)
    \/ \E o \in OpIds : DaemonPullComplete(o)
    \/ \E o \in OpIds : DaemonPullFail(o)
    \/ \E o \in OpIds : FetchRead(o)
    \/ \E i \in IMAGE_IDS : RemoveImage(i)
    \/ \E o \in OpIds : RemoveImageAct(o)
    \/ \E i \in IMAGE_IDS : Run(i)
    \/ \E o \in OpIds : RunFind(o)
    \/ \E o \in OpIds : RunStart(o)
    \/ \E o \in OpIds : RunCreate(o)
    \/ \E i \in IMAGE_IDS : Stop(i)
    \/ \E o \in OpIds : StopFind(o)
    \/ \E o \in OpIds : StopStop(o)
    \/ \E i \in IMAGE_IDS : RemoveContainer(i)
    \/ \E o \in OpIds : RemoveContainerFind(o)
    \/ \E o \in OpIds : RemoveContainerRemove(o)

Spec == Init /\ [][Next]_vars

\* ------------------------------------------------- the notifications store
\* The reducer of 0-notifications on its own: any sequence of add, clear and
\* clear-all actions on notification objects, two objects of each value.
NotificationObjects ==
    {[obj |-> k, title |-> "Dependency error", content |-> <<"image", (k + 1) \div 2>>,
      importance |-> "MEDIUM"] : k \in 1..MaxObjects}

InitN ==
    /\ notifications = [notifications |-> << >>, unread_count |-> 0]
    /\ store = [i \in IMAGE_IDS |-> InitialImageState]
    /\ daemon = [i \in IMAGE_IDS |-> [image |-> 0, container |-> "none"]]
    /\ nextId = 3
    /\ ops = << >>
    /\ menu = None
    /\ lastCheck = [i \in IMAGE_IDS |-> << >>]

DispatchAdd(n) ==
    /\ notifications' = NotificationsAdd(notifications, n)
    /\ UNCHANGED <<store, daemon, nextId, ops, menu, lastCheck>>

DispatchClear(n) ==
    /\ notifications.unread_count > -MaxBelow
    /\ notifications' = NotificationsClear(notifications, n)
    /\ UNCHANGED <<store, daemon, nextId, ops, menu, lastCheck>>

DispatchClearAll ==
    /\ notifications' = NotificationsClearAll(notifications)
    /\ UNCHANGED <<store, daemon, nextId, ops, menu, lastCheck>>

NextN ==
    \/ \E n \in NotificationObjects : DispatchAdd(n)
    \/ \E n \in NotificationObjects : DispatchClear(n)
    \/ DispatchClearAll

SpecN == InitN /\ [][NextN]_vars

\* ================================================================== claims
Formatted(ports) == [k \in 1..Len(ports) |-> <<ports[k].HostIp, ports[k].HostPort>>]

Finished(o) == ops[o].pc \in {"done", "aborted", "raised", "closed"}

\* a check's poll ends in this step: it leaves images.get / find_container
PollEnds(o) ==
    /\ ops[o].kind = "check" /\ ops[o].pc \in {"get", "list"}
    /\ ops'[o].pc \notin {"get", "list"}

\* ---- C1 (as stated): for every image, ports and container_ip are non-empty
\* exactly when the status is RUNNING.
C1_PortsAndIpIffRunning ==
    \A i \in IMAGE_IDS :
       (store[i].status = "RUNNING")
          <=> (store[i].ports # << >> /\ store[i].container_ip \notin {None, ""})

\* ---- C1 (amended): no status other than RUNNING is stored with a port or a
\* container_ip; RUNNING is stored with the bindings of the container, which
\* may be none.
C1_OnlyRunningHasPortsAndIp ==
    \A i \in IMAGE_IDS :
       store[i].status # "RUNNING"
          => store[i].ports = << >> /\ store[i].container_ip = None

\* the container of an image with ports was stopped from RUNNING and the
\* monitor has set CREATED
C1_Witness ==
    \E o \in OpIds :
       /\ ops[o].kind = "stop" /\ ops[o].pc = "done"
       /\ IMAGES[ops[o].image].ports # << >>
       /\ daemon[ops[o].image].container = "exited"
       /\ store[ops[o].image].status = "CREATED"

\* ---- C2: a fetch issued at NOT_AVAILABLE whose pull succeeded, with a
\* monitor of the image subscribed since before the pull that has taken every
\* event and recorded the pulled id, ends with status AVAILABLE.
C2_FetchEndsAvailable ==
    \A o \in OpIds :
       LET i == ops[o].image IN
       ( /\ ops[o].kind = "fetch" /\ ops[o].pc = "done" /\ ops[o].stream = "eof"
         /\ \A p \in OpIds : ops[p].image = i /\ p # o => ops[p].kind = "check"
         /\ \A p \in OpIds : ops[p].image = i /\ ops[p].kind = "check"
                                => ops[p].pc \in {"monitor", "closed"} /\ ops[p].queue = << >>
         /\ \E m \in ops[o].watchers : Monitoring(m)
         /\ store[i].docker_id = daemon[i].image /\ daemon[i].image # 0 )
       => store[i].status = "AVAILABLE"

\* a dependency of the run is unmet in the docker_state the run holds
Unmet(o) ==
    \E k \in 1..Len(IMAGES[ops[o].image].hosts) :
       LET value == IMAGES[ops[o].image].hosts[k].value IN
       value \notin IMAGE_IDS \/ ops[o].snap[value] = None

\* a declared dependency of the run is a managed image without container_ip
UnmetNoIp(o) ==
    \E k \in 1..Len(IMAGES[ops[o].image].hosts) :
       LET value == IMAGES[ops[o].image].hosts[k].value IN
       value \in IMAGE_IDS /\ ops[o].snap[value] = None

\* ---- C3: a run whose declared dependency has container_ip = None makes no
\* daemon call, dispatches exactly one notification and no status action.
C3_DependencyGate ==
    \A o \in OpIds :
       ops[o].kind = "run" /\ Finished(o) /\ UnmetNoIp(o)
          => ops[o].calls = {} /\ ops[o].notes = 1 /\ ops[o].acts = 0

\* ---- C4: while a declared dependency is unmet, run neither starts an
\* existing container nor creates one.
C4_ResolveBeforeStart ==
    \A o \in OpIds :
       ops[o].kind = "run" /\ Unmet(o)
          => "start" \notin ops[o].calls /\ "run" \notin ops[o].calls

\* ---- C5: the poll of check sets the state from the daemon's answers alone:
\* the id is recorded when the image is found; not found gives NOT_AVAILABLE,
\* a daemon failure ERROR, a running container RUNNING with its ports and
\* address, a container that does not run CREATED, no container AVAILABLE.
C5_CheckFollowsDaemon ==
    [][\A o \in OpIds :
         LET i == ops[o].image
             r == ops'[o]
             s == store'[i]
         IN /\ ( ops[o].kind = "check" /\ ops[o].pc = "get" /\ r.pc # "get" )
               => /\ r.img = (IF daemon[i].image = 0 THEN "not_found" ELSE "found")
                     \/ r.img = "error"
                  /\ r.img = "found" => s.docker_id = daemon[i].image
                                        /\ s.status = store[i].status
            /\ PollEnds(o)
               => /\ r.img = "not_found" => s.status = "NOT_AVAILABLE"
                  /\ (r.img = "error" \/ r.cont = "error") => s.status = "ERROR"
                  /\ (r.img = "found" /\ r.cont = "running")
                        => /\ s.status = "RUNNING"
                           /\ daemon[i].container = "running"
                           /\ s.ports = Formatted(IMAGES[i].ports)
                           /\ s.container_ip = BridgeIp(i)
                  /\ (r.img = "found" /\ r.cont = "exited")
                        => s.status = "CREATED" /\ daemon[i].container = "exited"
                  /\ (r.img = "found" /\ r.cont = "none")
                        => s.status = "AVAILABLE" /\ daemon[i].container = "none"
                  /\ s.status # "RUNNING" => s.ports = << >> /\ s.container_ip = None
      ]_vars

\* a check that found a running container has set RUNNING after an earlier
\* check of the image had met a daemon failure and set ERROR
C5_Witness ==
    \E o1, o2 \in OpIds :
       /\ o1 < o2 /\ ops[o1].kind = "check" /\ ops[o2].kind = "check"
       /\ ops[o1].image = ops[o2].image
       /\ ops[o1].img = "error"
       /\ ops[o2].img = "found" /\ ops[o2].cont = "running" /\ ops[o2].pc = "subscribe"
       /\ store[ops[o2].image].status = "RUNNING"

\* ---- C6: a poll that follows a finished poll of the same image in a row
\* (it began after that poll ended, and since then no other poll of the image
\* has run, the daemon's image and container have not changed and no other
\* thread has written the ImageState), and that gets the same answers, leaves
\* the same status, daemon id, ports and container_ip.
C6_CheckIdempotent ==
    [][\A o \in OpIds :
         LET i == ops[o].image IN
         PollEnds(o) /\ InRow(lastCheck[i], o, ops[o].pc)
                     /\ SameAnswers(lastCheck[i], ops'[o])
            => store'[i] = lastCheck[i][1].state
      ]_vars

\* the second poll in a row has ended on a running container with ports
C6_Witness ==
    \E i \in IMAGE_IDS :
       /\ lastCheck[i] # << >> /\ lastCheck[i][1].n = 2
       /\ lastCheck[i][1].cont = "running" /\ store[i].ports # << >>

\* ---- C7: a daemon id that is set is never cleared, and it changes only to
\* the id of the image the daemon holds now, handed out by a later pull.
C7_DockerIdKept ==
    [][\A i \in IMAGE_IDS :
         store[i].docker_id # 0
            => /\ store'[i].docker_id # 0
               /\ store'[i].docker_id # store[i].docker_id
                    => /\ store'[i].docker_id = daemon[i].image
                       /\ store'[i].docker_id > store[i].docker_id
      ]_vars

\* the image was removed and pulled again: the delete event left the id in
\* place and the pull event replaced it
C7_Witness ==
    \E i \in IMAGE_IDS :
       /\ \E o \in OpIds : ops[o].kind = "remove_image" /\ ops[o].image = i
                           /\ ops[o].pc = "done"
       /\ \E o \in OpIds : ops[o].kind = "fetch" /\ ops[o].image = i
                           /\ ops[o].stream = "eof"
       /\ store[i].docker_id \notin {0, InitId(i)}

\* ---- C8: on every outcome of its poll a check goes on to the finally
\* block, and from there into the monitor: it never ends before.
C8_CheckStartsMonitor ==
    [][\A o \in OpIds :
         ops[o].kind = "check"
            => /\ ops[o].pc = "get" => ops'[o].pc \in {"get", "list", "subscribe"}
               /\ ops[o].pc = "list" => ops'[o].pc \in {"list", "subscribe"}
               /\ ops[o].pc = "subscribe" => ops'[o].pc \in {"subscribe", "monitor"}
      ]_vars

\* three monitors run, started by checks whose polls met a daemon failure, a
\* missing image and an image
C8_Witness ==
    \E o1, o2, o3 \in OpIds :
       /\ Monitoring(o1) /\ ops[o1].img = "error"
       /\ Monitoring(o2) /\ ops[o2].img = "not_found"
       /\ Monitoring(o3) /\ ops[o3].img = "found"

\* ---- C9: at most one monitor is active for an image at any time.
C9_OneMonitor ==
    \A i \in IMAGE_IDS : Cardinality(Monitors(i)) <= 1

\* ---- C10: no step of a run, stop, remove_image or remove_container worker
\* changes the store, and an ImageState changes only in a step of a check
\* (its poll or its monitor) or of a fetch of that image.
C10_NoOptimisticDispatch ==
    [][/\ \A o \in OpIds :
            ( /\ ops[o].kind \in {"run", "stop", "remove_image", "remove_container"}
              /\ ops'[o].pc # ops[o].pc )
            => store' = store
       /\ \A i \in IMAGE_IDS :
            store'[i] # store[i]
            => \E o \in OpIds : /\ ops[o].kind \in {"check", "fetch"}
                                /\ ops[o].image = i
                                /\ ops'[o] # ops[o]
      ]_vars

\* a stop has stopped the container and the status is still RUNNING: the
\* monitor has not yet taken the die event
C10_Witness ==
    \E o \in OpIds :
       /\ ops[o].kind = "stop" /\ ops[o].pc = "done"
       /\ daemon[ops[o].image].container = "exited"
       /\ store[ops[o].image].status = "RUNNING"

\* the monitor o takes the next event of its feed in this step
MonitorTakes(o) ==
    /\ Monitoring(o) /\ ops[o].queue # << >>
    /\ \/ ops'[o].pc = "monitor" /\ ops'[o].queue = Tail(ops[o].queue)
       \/ ops'[o].pc = "raised"

\* ---- C11: no worker and no monitor ends with an exception that nothing
\* caught: every failure of a daemon call is handled inside the operation.
C11_FailuresHandled ==
    \A o \in OpIds : ops[o].pc # "raised"

\* the status an authoritative check would derive from the daemon now
Derived(i) ==
    IF daemon[i].image = 0
    THEN check_get_dispatch(store, i, "not_found", 0)[i].status
    ELSE check_list_dispatch(check_get_dispatch(store, i, "found", daemon[i].image),
                             i, FALSE, find_container(daemon, i))[i].status

\* nothing is in flight: every worker has ended or is a monitor with an empty
\* feed, and no daemon call has failed
Quiescent ==
    \A o \in OpIds :
       /\ Finished(o) \/ (Monitoring(o) /\ ops[o].queue = << >>)
       /\ ops[o].pc # "raised" /\ ops[o].img # "error" /\ ops[o].cont # "error"
       /\ ops[o].kind = "fetch" => ops[o].stream = "eof"

\* ---- C12: with a monitor of the image active since before the operations on
\* it, every event taken and nothing in flight, the stored status is the status
\* a check would derive from the daemon.
C12_ConvergesToDaemon ==
    \A i \in IMAGE_IDS :
       ( /\ Quiescent
         /\ \E m \in Monitors(i) :
               \A p \in OpIds : ops[p].image = i /\ ops[p].kind # "check" => m < p
         /\ store[i].docker_id = daemon[i].image )
       => store[i].status = Derived(i)

\* the entries of the run's hosts map that are unmet in the docker_state it holds
UnmetEntries(o) ==
    {k \in 1..Len(IMAGES[ops[o].image].hosts) :
        LET value == IMAGES[ops[o].image].hosts[k].value IN
        value \notin IMAGE_IDS \/ ops[o].snap[value] = None}

\* ---- C13: a run that finds no container and has an unmet dependency ends
\* there, dispatching one notification: title 'Dependency error', medium
\* importance, naming the first unmet entry of the hosts map, 'is not loaded'
\* for a target without ImageState, 'does not have an IP address' for one
\* without container_ip; no other notification is added.
C13_FirstUnmetReported ==
    [][\A o \in OpIds :
         ( ops[o].kind = "run" /\ ops[o].pc = "find"
           /\ ops'[o].pc \notin {"find", "raised"} /\ ops'[o].cont = "none" )
         => IF UnmetEntries(o) = {}
            THEN ops'[o].pc = "create" /\ notifications' = notifications
            ELSE LET k == CHOOSE x \in UnmetEntries(o) :
                             \A y \in UnmetEntries(o) : x <= y
                     value == IMAGES[ops[o].image].hosts[k].value
                     what == IF value \in IMAGE_IDS
                             THEN "does not have an IP address"
                             ELSE "is not loaded"
                 IN /\ ops'[o].pc = "aborted"
                    /\ ops'[o].notes = ops[o].notes + 1
                    /\ notifications' =
                         NotificationsAdd(notifications,
                                          [title |-> "Dependency error",
                                           content |-> <<value, what>>,
                                           importance |-> "MEDIUM"])
      ]_vars

\* a run with two unmet dependencies has ended: only the first, the image
\* without container_ip, is reported
C13_Witness ==
    \E o \in OpIds :
       /\ ops[o].kind = "run" /\ ops[o].pc = "aborted" /\ ops[o].notes = 1
       /\ Cardinality(UnmetEntries(o)) = 2
       /\ notifications.notifications =
            << Notification(<<"database", "does not have an IP address">>) >>

\* ---- C14: the monitor compares the id of an image delete event with the
\* daemon id the store holds when the event is taken: on the stored id the
\* status becomes NOT_AVAILABLE, on any other id the ImageState stays as it is.
C14_DeleteComparesCurrentId ==
    [][\A o \in OpIds :
         LET i == ops[o].image
             event == Head(ops[o].queue)
         IN ( MonitorTakes(o) /\ event.Type = "image" /\ event.status = "delete" )
            => IF event.sha = store[i].docker_id
               THEN store'[i] = [store[i] EXCEPT !.status = "NOT_AVAILABLE",
                                                 !.ports = << >>,
                                                 !.container_ip = None]
               ELSE store'[i] = store[i]
      ]_vars

\* a monitor started while the image was absent (no daemon id known) has seen
\* the pull that recorded an id and then the delete of that id
C14_Witness ==
    \E m \in OpIds :
       LET i == ops[m].image IN
       /\ Monitoring(m) /\ ops[m].img = "not_found" /\ ops[m].queue = << >>
       /\ \E o \in OpIds : ops[o].kind = "remove_image" /\ ops[o].image = i
                           /\ ops[o].pc = "done"
       /\ store[i].docker_id # 0 /\ daemon[i].image = 0
       /\ store[i].status = "NOT_AVAILABLE"

\* ---- C15: on a pull event for the image's path, with the image held by the
\* daemon, the monitor's lookup either succeeds, and the status becomes
\* AVAILABLE with the image's id recorded, or fails with a daemon error, and
\* the status becomes ERROR.
C15_PullLookupErrorGivesError ==
    [][\A o \in OpIds :
         LET i == ops[o].image
             event == Head(ops[o].queue)
         IN ( /\ MonitorTakes(o)
              /\ event.Type = "image" /\ event.status = "pull"
              /\ event.id = IMAGES[i].path
              /\ daemon[i].image # 0 )
            => \/ /\ store'[i].status = "AVAILABLE"
                  /\ store'[i].docker_id = daemon[i].image
               \/ store'[i].status = "ERROR"
      ]_vars

\* ---- C16: a run that finds no container and no unmet dependency asks the
\* daemon to create and start a detached container with the image's declared
\* ports, volumes, environment and network mode; the container starts and its
\* start event reaches every monitor.  A monitor that takes a start event of
\* its image's path reads the container again: RUNNING with the container's
\* ports and bridge address if it runs, CREATED if it does not.
C16_RunCreatesAndMonitorSetsRunning ==
    [][\A o \in OpIds :
         LET i == ops[o].image IN
         /\ ( ops[o].kind = "run" /\ ops[o].pc = "find" /\ ops'[o].pc # "raised"
              /\ ops'[o].cont = "none" /\ UnmetEntries(o) = {} )
            => ops'[o].pc = "create"
         /\ ( ops[o].kind = "run" /\ ops[o].pc = "create" /\ ops'[o].pc = "done" )
            => /\ ops'[o].args = << [image |-> IMAGES[i].path, hostname |-> i,
                                     publish_all_ports |-> TRUE, detach |-> TRUE,
                                     volumes |-> IMAGES[i].volumes,
                                     ports |-> IMAGES[i].ports,
                                     network_mode |-> IMAGES[i].network_mode,
                                     environment |-> IMAGES[i].environment,
                                     extra_hosts |-> ops[o].hosts,
                                     restart_policy |-> "always"] >>
               /\ daemon'[i].container = "running"
               /\ \A m \in OpIds :
                     Monitoring(m)
                        => /\ ops'[m].queue # << >>
                           /\ ops'[m].queue[Len(ops'[m].queue)] = ContainerEvent("start", i)
         /\ ( /\ MonitorTakes(o) /\ ops'[o].pc = "monitor"
              /\ Head(ops[o].queue) = ContainerEvent("start", i) )
            => store'[i] =
                 CASE daemon[i].container = "running" ->
                        [store[i] EXCEPT !.status = "RUNNING",
                                         !.ports = Formatted(IMAGES[i].ports),
                                         !.container_ip = BridgeIp(i)]
                   [] daemon[i].container = "exited" ->
                        [store[i] EXCEPT !.status = "CREATED",
                                         !.ports = << >>,
                                         !.container_ip = None]
                   [] OTHER -> store[i]
      ]_vars

\* a run has created the container of an image and the monitor has set
\* RUNNING with the bridge address
C16_Witness ==
    \E o \in OpIds :
       LET i == ops[o].image IN
       /\ ops[o].kind = "run" /\ ops[o].pc = "done" /\ "run" \in ops[o].calls
       /\ \E m \in Monitors(i) : ops[m].queue = << >>
       /\ store[i].status = "RUNNING" /\ store[i].container_ip = BridgeIp(i)
       /\ store[i].ports = Formatted(IMAGES[i].ports)

\* ---- C17: when a monitor takes a die event of its image's path while the
\* status is RUNNING, the status becomes CREATED and ports and container_ip
\* are emptied in that step.
C17_DieGivesCreated ==
    [][\A o \in OpIds :
         LET i == ops[o].image IN
         ( /\ MonitorTakes(o)
           /\ Head(ops[o].queue) = ContainerEvent("die", i)
           /\ store[i].status = "RUNNING" )
         => store'[i] = [store[i] EXCEPT !.status = "CREATED",
                                         !.ports = << >>,
                                         !.container_ip = None]
      ]_vars

\* the die event of a stopped container was taken: the ports and the address
\* the store held while RUNNING are gone
C17_Witness ==
    \E o \in OpIds, m \in OpIds :
       LET i == ops[o].image IN
       /\ ops[o].kind = "stop" /\ "stop" \in ops[o].calls /\ ops[o].pc = "done"
       /\ IMAGES[i].ports # << >>
       /\ m \in Monitors(i) /\ ops[m].cont = "running" /\ ops[m].queue = << >>
       /\ store[i] = [status |-> "CREATED", docker_id |-> daemon[i].image,
                      ports |-> << >>, container_ip |-> None]

\* ---- C18: when a monitor takes a destroy event of its image's path while
\* the status is RUNNING or CREATED, the status becomes AVAILABLE.
C18_DestroyGivesAvailable ==
    [][\A o \in OpIds :
         LET i == ops[o].image IN
         ( /\ MonitorTakes(o)
           /\ Head(ops[o].queue) = ContainerEvent("destroy", i)
           /\ store[i].status \in {"RUNNING", "CREATED"} )
         => store'[i].status = "AVAILABLE"
      ]_vars

\* the container was removed and the monitor has taken the destroy event
C18_Witness ==
    \E o \in OpIds :
       LET i == ops[o].image IN
       /\ ops[o].kind = "remove_container" /\ "remove" \in ops[o].calls
       /\ ops[o].pc = "done"
       /\ \E m \in Monitors(i) : ops[m].queue = << >>
       /\ daemon[i].container = "none" /\ daemon[i].image # 0
       /\ store[i].status = "AVAILABLE"

\* the event matches one of the monitor's rules for image i
Matches(i, event) ==
    \/ event.Type = "image" /\ event.status = "pull" /\ event.id = IMAGES[i].path
    \/ event.Type = "image" /\ event.status = "delete"
                            /\ event.sha = store[i].docker_id
    \/ event.Type = "container" /\ event.status \in {"start", "die", "destroy"}
                                /\ event.from = IMAGES[i].path

\* ---- C19: a monitor that takes an event matching none of its rules changes
\* no ImageState, and an ImageState changes only in a step of a worker of that
\* image: no event and no operation of one image changes the state of another.
C19_OtherImagesUnchanged ==
    [][/\ \A o \in OpIds :
            MonitorTakes(o) /\ ~Matches(ops[o].image, Head(ops[o].queue))
               => store' = store
       /\ \A j \in IMAGE_IDS :
            store'[j] # store[j]
               => /\ \E o \in OpIds :
                        /\ ops[o].image = j
                        /\ MonitorTakes(o) \/ ops'[o].pc # ops[o].pc
                                           \/ ops'[o].acts # ops[o].acts
                  /\ \A k \in IMAGE_IDS \ {j} : store'[k] = store[k]
      ]_vars

\* the monitors of both images have taken the die event of the container of
\* 'api', which is not an event of 'database'
C19_Witness ==
    /\ \E m \in Monitors("api") : ops[m].queue = << >>
    /\ \E m \in Monitors("database") : ops[m].queue = << >>
    /\ \E o \in OpIds : ops[o].kind = "stop" /\ ops[o].image = "api"
                        /\ "stop" \in ops[o].calls /\ ops[o].pc = "done"
    /\ daemon["api"].container = "exited"
    /\ store["api"].status = "CREATED"

\* ---- C20: a fetch during which the daemon fails, at the pull request or at
\* any point of the stream, ends with status ERROR.
C20_FailedFetchEndsInError ==
    [][\A o \in OpIds :
         ( /\ ops[o].kind = "fetch" /\ ops[o].pc # "done" /\ ops'[o].pc = "done"
           /\ ops'[o].stream # "eof" )
         => store'[ops[o].image].status = "ERROR"
      ]_vars

\* every worker has ended or is a monitor with an empty feed, and every pull
\* has ended with the image pulled
Settled ==
    \A o \in OpIds :
       /\ Finished(o) \/ (Monitoring(o) /\ ops[o].queue = << >>)
       /\ ops[o].kind = "fetch" => ops[o].stream = "eof"

\* ---- C21: after a remove_image selected while the image was FETCHING and
\* met by no daemon failure, with a monitor of the image active, every event
\* taken and nothing in flight, the status is NOT_AVAILABLE.
C21_CancelGivesNotAvailable ==
    \A o \in OpIds :
       LET i == ops[o].image IN
       ( /\ ops[o].kind = "remove_image" /\ ops[o].at = "FETCHING"
         /\ ops[o].img # "error"
         /\ Settled
         /\ Monitors(i) # {} )
       => store[i].status = "NOT_AVAILABLE"

\* the extra_hosts the hosts map of the run's image stands for: the address of
\* a target that is an image id, any other target as it is
ExpectedHosts(o) ==
    LET entries == IMAGES[ops[o].image].hosts IN
    [k \in 1..Len(entries) |->
        <<entries[k].key,
          IF entries[k].value \in IMAGE_IDS THEN ops[o].snap[entries[k].value]
          ELSE entries[k].value>>]

\* ---- C22: a run that finds no container, and whose targets that are image
\* ids all have a container_ip, does not end on a dependency error: it goes
\* on to containers.run with one extra_hosts entry per declared hostname, a
\* target that is no image id passed as it is.
C22_LiteralHostPassedThrough ==
    \A o \in OpIds :
       ( /\ ops[o].kind = "run" /\ ops[o].cont = "none"
         /\ ~UnmetNoIp(o) )
       => /\ ops[o].pc # "aborted" /\ ops[o].notes = 0
          /\ ops[o].pc \in {"create", "done"} => ops[o].hosts = ExpectedHosts(o)

\* the rows of the transition table: the statuses a status is entered from
EnteredFrom(status) ==
    CASE status = "FETCHING" -> {"NOT_AVAILABLE"}
      [] status = "AVAILABLE" -> {"FETCHING", "CREATED", "RUNNING"}
      [] status = "CREATED" -> {"AVAILABLE", "RUNNING"}
      [] status = "RUNNING" -> {"AVAILABLE", "CREATED"}
      [] OTHER -> ImageStatus

\* ---- C23: every change of a status made by a step of a fetch or of a
\* monitor follows a row of the transition table.
C23_TransitionsFollowTable ==
    [][\A o \in OpIds :
         LET i == ops[o].image IN
         ( /\ \/ MonitorTakes(o)
              \/ ops[o].kind = "fetch" /\ ops'[o].acts # ops[o].acts
           /\ store'[i].status # store[i].status )
         => store[i].status \in EnteredFrom(store'[i].status)
      ]_vars

\* ---- C24: the step in which a monitor ends because the feed has ended
\* changes no ImageState and adds no notification.
C24_FeedEndIsSilent ==
    [][\A o \in OpIds :
         Monitoring(o) /\ ops'[o].pc = "closed"
            => store' = store /\ notifications' = notifications
      ]_vars

\* the monitor of a RUNNING image has ended, the container was stopped after
\* that, and the store still shows RUNNING
C24_Witness ==
    \E o \in OpIds :
       LET i == ops[o].image IN
       /\ ops[o].kind = "check" /\ ops[o].pc = "closed"
       /\ Monitors(i) = {}
       /\ store[i].status = "RUNNING" /\ daemon[i].container = "exited"

\* ---- C25: a change the daemon made to the image after a check's poll and
\* before its monitor subscribed is reflected in the store: with that monitor
\* active, every event taken, nothing in flight and no daemon call failed, the
\* stored status is the status a check would derive from the daemon.
C25_NoChangeLostBeforeSubscribe ==
    \A o \in OpIds :
       ( Monitoring(o) /\ ops[o].missed /\ Quiescent )
       => store[ops[o].image].status = Derived(ops[o].image)

\* the statuses in which image_menu is to offer an operation
OfferedIn(kind) ==
    CASE kind = "fetch" -> {"NOT_AVAILABLE"}
      [] kind = "remove_image" -> {"FETCHING", "AVAILABLE"}
      [] kind = "run" -> {"AVAILABLE", "CREATED"}
      [] kind = "remove_container" -> {"CREATED"}
      [] kind = "stop" -> {"RUNNING"}
      [] OTHER -> ImageStatus

\* ---- C26: a user operation is started only from the open menu of its image
\* and only while the status the menu shows allows it: fetch in NOT_AVAILABLE,
\* remove_image in FETCHING or AVAILABLE, run in AVAILABLE or CREATED,
\* remove_container in CREATED, stop in RUNNING, none in ERROR.
C26_MenuOffersByStatus ==
    [][Len(ops') > Len(ops)
         => LET op == ops'[Len(ops')] IN
            op.kind # "check"
               => /\ menu = op.image
                  /\ store[op.image].status \in OfferedIn(op.kind)
                  /\ store[op.image].status # "ERROR"
                  /\ op.at = store[op.image].status
      ]_vars

\* the Stop item of the FETCHING menu was selected, and the fetch has since
\* failed: the menu of the image now shows ERROR and offers nothing
C26_Witness ==
    \E o \in OpIds :
       /\ ops[o].kind = "remove_image" /\ ops[o].at = "FETCHING"
       /\ menu = ops[o].image
       /\ store[ops[o].image].status = "ERROR"

\* ---- C27: a worker that has ended without a failure of a daemon call has
\* closed its client.
C27_ClientsClosed ==
    \A o \in OpIds :
       ( /\ Finished(o) /\ ops[o].pc # "raised"
         /\ ops[o].kind = "fetch" => ops[o].stream \in {"eof", "failed"} )
       => client_closed(ops[o])

\* ---- C28: in the notifications store unread_count is the number of stored
\* notifications, and it is never negative.
C28_UnreadCountIsLength ==
    /\ notifications.unread_count = Len(notifications.notifications)
    /\ notifications.unread_count >= 0

====
